---- MODULE Spec2Model ----
(***************************************************************************)
(* Model of src/main/python/RealTimeMarketDataLoader.py: the windowed,     *)
(* paced acquisition of daily bars (fetch_historical_data_chunk,           *)
(* fetch_historical_data, process_symbols_in_batches).                     *)
(*                                                                         *)
(* Dates are day numbers (integers); a timedelta(days=k) is the integer k. *)
(* A DataFrame is [none |-> BOOLEAN, rows |-> sequence of rows]; the       *)
(* Python value None is the record with none = TRUE.                       *)
(***************************************************************************)
EXTENDS Integers, Sequences, FiniteSets, TLC

\* ---------------------------------------------------------------- constants
ChunkDays == 1000          \* timedelta(days=1000)
RequestLimit == 1000       \* limit=1000
LookbackDays == 5 * 365    \* timedelta(days=5*365)

\* ------------------------------------------------------------------- bounds
MaxStart == 1              \* start dates of a direct fetch: 0..MaxStart
MaxEnd == 2004             \* end dates of a direct fetch: 0..MaxEnd
MaxSymbols == 3            \* longest symbol list of a run
MaxBatch == 2              \* largest batch size of a run
MaxTicks == 1              \* midnights that may pass during a run
MaxRequests == 4           \* cap on the request log of one symbol

SymbolSet == {"TEST", "GHOST"}

VARIABLES
    symbols,        \* argument of process_symbols_in_batches
    batch_size,     \* argument of process_symbols_in_batches
    i,              \* outer loop variable: range(0, len(symbols), batch_size)
    batch,          \* symbols[i:i + batch_size]
    j,              \* position of the inner loop in batch (1-based)
    symbol,         \* symbol being processed
    start_date,     \* start of the requested range
    end_date,       \* end of the requested range
    output_dir,     \* directory name computed for the current symbol
    all_data,       \* list of the non-empty chunk frames
    current_start,  \* start of the next window
    chunk_end,      \* end of the window being fetched
    df,             \* value returned by fetch_historical_data
    pc,             \* position of the (single) thread of control
    today,          \* calendar day of datetime.now(America/New_York)
    ticks,          \* midnights passed so far
    dirs,           \* file system: directories created
    files,          \* file system: the CSV files written
    csv,            \* rows handed to the last df.to_csv of the current symbol
    announced,      \* "Processing batch k of m" lines printed, with the batch
    processed,      \* symbols for which the inner loop body was entered
    reqlog,         \* provider requests of the current symbol, with outcome
    outstanding,    \* provider requests issued and not yet returned
    sleeps,         \* pacing delays since the last provider request returned
    fetched,        \* TRUE once some provider request was issued
    symbol_sleeps,  \* per-symbol pacing delays performed
    saved           \* TRUE iff a file was written for the current symbol

vars == <<symbols, batch_size, i, batch, j, symbol, start_date, end_date,
          output_dir, all_data, current_start, chunk_end, df, pc, today,
          ticks, dirs, files, announced, processed, reqlog, outstanding,
          sleeps, fetched, symbol_sleeps, saved, csv>>

\* ------------------------------------------------------------------ helpers
Min(a, b) == IF a < b THEN a ELSE b

None == [none |-> TRUE, rows |-> <<>>]
DataFrame(rows) == [none |-> FALSE, rows |-> rows]

\* df.empty
Empty(frame) == Len(frame.rows) = 0

RECURSIVE Concat(_)
\* pd.concat(all_data, ignore_index=True)
Concat(frames) ==
    IF frames = <<>> THEN <<>>
    ELSE Head(frames).rows \o Concat(Tail(frames))

RECURSIVE Insert(_, _)
Insert(row, sorted) ==
    IF sorted = <<>> THEN <<row>>
    ELSE IF row.Date < Head(sorted).Date THEN <<row>> \o sorted
    ELSE <<Head(sorted)>> \o Insert(row, Tail(sorted))

RECURSIVE SortByDate(_)
\* df.sort_values('Date'): stable ascending sort
SortByDate(rows) ==
    IF rows = <<>> THEN <<>>
    ELSE Insert(rows[Len(rows)], SortByDate(SubSeq(rows, 1, Len(rows) - 1)))

RECURSIVE SeqsUpTo(_, _)
SeqsUpTo(S, n) ==
    IF n = 0 THEN {<<>>}
    ELSE LET shorter == SeqsUpTo(S, n - 1)
         IN  shorter \cup {Append(s, x) : s \in {t \in shorter : Len(t) = n - 1}, x \in S}

\* ------------------------------------------------- the provider (external)
Row(date, sym) == [Date |-> date, Symbol |-> sym]

\* stock_historical_data_client.get_stock_bars(req): it raises, returns an
\* empty frame, or returns bars of the window
ProviderResponses(sym, from, to) ==
    { [kind |-> "error", rows |-> <<>>],
      [kind |-> "empty", rows |-> <<>>],
      [kind |-> "data",  rows |-> <<Row(from, sym), Row(to, sym)>>] }

\* ------------------------------------------- fetch_historical_data_chunk
fetch_historical_data_chunk_nocatch(resp) ==
    IF resp.kind = "error" THEN [raised |-> TRUE, value |-> None]
    ELSE IF resp.rows = <<>> THEN [raised |-> FALSE, value |-> None]
    ELSE [raised |-> FALSE, value |-> DataFrame(resp.rows)]

\* what the call returns for a provider response; raised = an exception
\* escapes the function
fetch_historical_data_chunk(resp) ==
    IF resp.kind = "error" THEN [raised |-> FALSE, value |-> None]
    ELSE IF resp.rows = <<>> THEN [raised |-> FALSE, value |-> None]
    ELSE [raised |-> FALSE, value |-> DataFrame(resp.rows)]

\* ------------------------------------------------- fetch_historical_data
\* while current_start < end_date
LoopCond(cs, e) == cs < e

\* chunk_end = min(current_start + timedelta(days=1000), end_date)
ChunkEnd(cs, e) == Min(cs + ChunkDays, e)

NextStart_overlap(ce) == ce

NextStart_back(ce) == ce - ChunkDays

\* current_start = chunk_end + timedelta(days=1)
NextStart(ce) == ce + 1

\* if chunk_df is not None and not chunk_df.empty
KeepChunk(frame) == ~frame.none /\ ~Empty(frame)

\* if all_data: return pd.concat(...) ; return None
FetchResult(data) ==
    IF data # <<>> THEN DataFrame(Concat(data)) ELSE None

\* ------------------------------------------- process_symbols_in_batches
BatchSlice_short(syms, k, b) == SubSeq(syms, k + 1, Min(k + b, Len(syms)) - 1)

\* symbols[i:i + batch_size]
BatchSlice(syms, k, b) == SubSeq(syms, k + 1, Min(k + b, Len(syms)))

\* i//batch_size + 1
BatchNumber(k, b) == (k \div b) + 1

TotalBatches_floor(n, b) == n \div b

\* (len(symbols) + batch_size - 1)//batch_size
TotalBatches(n, b) == (n + b - 1) \div b

\* f"market_data_export_{start:%Y-%m-%d}_to_{end:%Y-%m-%d}"
OutputDir(s, e) == <<"market_data_export", s, "to", e>>

\* f"{output_dir}/{symbol}_data.csv"
OutputFile(dir, sym) == <<dir, sym, "data.csv">>

HasData_any(frame) == TRUE

\* if df is not None and not df.empty
HasData(frame) == ~frame.none /\ ~Empty(frame)

\* ---------------------------------------------------------------- initial
NoFile == {}

\* a run of process_symbols_in_batches(symbols, batch_size)
Init ==
    /\ symbols \in SeqsUpTo(SymbolSet, MaxSymbols)
    /\ batch_size \in 1..MaxBatch
    /\ i = 0
    /\ batch = <<>>
    /\ j = 1
    /\ symbol = ""
    /\ start_date = 0
    /\ end_date = 0
    /\ output_dir = <<>>
    /\ all_data = <<>>
    /\ current_start = 0
    /\ chunk_end = 0
    /\ df = None
    /\ pc = "batch_loop"
    /\ today = LookbackDays
    /\ ticks = 0
    /\ dirs = {}
    /\ files = NoFile
    /\ announced = <<>>
    /\ processed = <<>>
    /\ reqlog = <<>>
    /\ outstanding = 0
    /\ sleeps = 0
    /\ fetched = FALSE
    /\ symbol_sleeps = 0
    /\ saved = FALSE
    /\ csv = <<>>

\* a direct call fetch_historical_data(symbol, start_date, end_date)
FetchInit ==
    /\ symbols = <<>>
    /\ batch_size = 1
    /\ i = 0
    /\ batch = <<>>
    /\ j = 1
    /\ symbol \in SymbolSet
    /\ start_date \in 0..MaxStart
    /\ end_date \in 0..MaxEnd
    /\ output_dir = <<>>
    /\ all_data = <<>>
    /\ current_start = start_date
    /\ chunk_end = 0
    /\ df = None
    /\ pc = "while"
    /\ today = LookbackDays
    /\ ticks = 0
    /\ dirs = {}
    /\ files = NoFile
    /\ announced = <<>>
    /\ processed = <<>>
    /\ reqlog = <<>>
    /\ outstanding = 0
    /\ sleeps = 0
    /\ fetched = FALSE
    /\ symbol_sleeps = 0
    /\ saved = FALSE
    /\ csv = <<>>

\* ---------------------------------------------------------------- actions
runVars == <<symbols, batch_size, i, batch, j, today, ticks, dirs, files,
             announced, processed, symbol_sleeps, saved, csv>>

\* loop test of fetch_historical_data succeeds: the window is computed and
\* fetch_historical_data_chunk issues its request
FetchLoop ==
    /\ pc = "while"
    /\ LoopCond(current_start, end_date)
    /\ Len(reqlog) < MaxRequests
    /\ chunk_end' = ChunkEnd(current_start, end_date)
    /\ outstanding' = outstanding + 1
    /\ fetched' = TRUE
    /\ reqlog' = Append(reqlog, [start |-> current_start,
                                 end |-> ChunkEnd(current_start, end_date),
                                 kind |-> "pending",
                                 rows |-> <<>>,
                                 paced |-> (~fetched \/ sleeps >= 1)])
    /\ pc' = "await"
    /\ UNCHANGED <<symbol, start_date, end_date, output_dir, all_data,
                   current_start, df, sleeps>>
    /\ UNCHANGED runVars

ChunkReturn_retry ==
    /\ pc = "await"
    /\ \E resp \in ProviderResponses(symbol, current_start, chunk_end) :
         LET result == fetch_historical_data_chunk(resp)
             chunk_df == result.value
         IN  /\ reqlog' = [reqlog EXCEPT ![Len(reqlog)].kind = resp.kind,
                                        ![Len(reqlog)].rows = resp.rows]
             /\ outstanding' = outstanding - 1
             /\ sleeps' = 0
             /\ IF result.raised
                THEN /\ pc' = "raised"
                     /\ UNCHANGED <<all_data, current_start>>
                ELSE /\ all_data' = IF KeepChunk(chunk_df)
                                    THEN Append(all_data, chunk_df)
                                    ELSE all_data
                     /\ current_start' = IF resp.kind = "error"
                                         THEN current_start
                                         ELSE NextStart(chunk_end)
                     /\ pc' = "chunk_sleep"
    /\ UNCHANGED <<symbol, start_date, end_date, output_dir, chunk_end, df,
                   fetched>>
    /\ UNCHANGED runVars

\* the provider request returns; the chunk is kept if it has rows and the
\* next window start is computed
ChunkReturn ==
    /\ pc = "await"
    /\ \E resp \in ProviderResponses(symbol, current_start, chunk_end) :
         LET result == fetch_historical_data_chunk(resp)
             chunk_df == result.value
         IN  /\ reqlog' = [reqlog EXCEPT ![Len(reqlog)].kind = resp.kind,
                                        ![Len(reqlog)].rows = resp.rows]
             /\ outstanding' = outstanding - 1
             /\ sleeps' = 0
             /\ IF result.raised
                THEN /\ pc' = "raised"
                     /\ UNCHANGED <<all_data, current_start>>
                ELSE /\ all_data' = IF KeepChunk(chunk_df)
                                    THEN Append(all_data, chunk_df)
                                    ELSE all_data
                     /\ current_start' = NextStart(chunk_end)
                     /\ pc' = "chunk_sleep"
    /\ UNCHANGED <<symbol, start_date, end_date, output_dir, chunk_end, df,
                   fetched>>
    /\ UNCHANGED runVars

ChunkSleep_skip ==
    /\ pc = "chunk_sleep"
    /\ pc' = "while"
    /\ UNCHANGED <<symbol, start_date, end_date, output_dir, all_data,
                   current_start, chunk_end, df, reqlog, outstanding,
                   fetched, sleeps>>
    /\ UNCHANGED runVars

\* time.sleep(1) at the end of the loop body
ChunkSleep ==
    /\ pc = "chunk_sleep"
    /\ sleeps' = sleeps + 1
    /\ pc' = "while"
    /\ UNCHANGED <<symbol, start_date, end_date, output_dir, all_data,
                   current_start, chunk_end, df, reqlog, outstanding,
                   fetched>>
    /\ UNCHANGED runVars

\* loop test fails: fetch_historical_data returns
FetchReturn ==
    /\ pc = "while"
    /\ ~LoopCond(current_start, end_date)
    /\ df' = FetchResult(all_data)
    /\ pc' = "return"
    /\ UNCHANGED <<symbol, start_date, end_date, output_dir, all_data,
                   current_start, chunk_end, reqlog, outstanding, sleeps,
                   fetched>>
    /\ UNCHANGED runVars

fetchVars == <<all_data, current_start, chunk_end, reqlog, outstanding,
               fetched>>

\* outer loop: next value of range(0, len(symbols), batch_size); the batch is
\* sliced and announced
BatchLoop ==
    /\ pc = "batch_loop"
    /\ i < Len(symbols)
    /\ batch' = BatchSlice(symbols, i, batch_size)
    /\ announced' = Append(announced,
                           [number |-> BatchNumber(i, batch_size),
                            total |-> TotalBatches(Len(symbols), batch_size),
                            batch |-> BatchSlice(symbols, i, batch_size)])
    /\ j' = 1
    /\ pc' = "symbol_loop"
    /\ UNCHANGED <<symbols, batch_size, i, symbol, start_date, end_date,
                   output_dir, df, today, ticks, dirs, files, processed,
                   sleeps, symbol_sleeps, saved, csv>>
    /\ UNCHANGED fetchVars

\* outer loop exhausted: process_symbols_in_batches returns
RunEnd ==
    /\ pc = "batch_loop"
    /\ ~(i < Len(symbols))
    /\ pc' = "done"
    /\ UNCHANGED <<symbols, batch_size, i, batch, j, symbol, start_date,
                   end_date, output_dir, df, today, ticks, dirs, files,
                   announced, processed, sleeps, symbol_sleeps, saved, csv>>
    /\ UNCHANGED fetchVars

\* inner loop: next symbol of the batch; the range and the directory are
\* computed from the clock, the directory is created and
\* fetch_historical_data is entered
SymbolStart ==
    /\ pc = "symbol_loop"
    /\ j <= Len(batch)
    /\ symbol' = batch[j]
    /\ end_date' = today
    /\ start_date' = today - LookbackDays
    /\ output_dir' = OutputDir(today - LookbackDays, today)
    /\ dirs' = dirs \cup {OutputDir(today - LookbackDays, today)}
    /\ processed' = Append(processed, batch[j])
    /\ all_data' = <<>>
    /\ current_start' = today - LookbackDays
    /\ reqlog' = <<>>
    /\ saved' = FALSE
    /\ csv' = <<>>
    /\ pc' = "while"
    /\ UNCHANGED <<symbols, batch_size, i, batch, j, chunk_end, df, today,
                   ticks, files, announced, outstanding, sleeps, fetched,
                   symbol_sleeps>>

\* inner loop exhausted: back to the outer loop with the next i
BatchEnd ==
    /\ pc = "symbol_loop"
    /\ ~(j <= Len(batch))
    /\ i' = i + batch_size
    /\ pc' = "batch_loop"
    /\ UNCHANGED <<symbols, batch_size, batch, j, symbol, start_date,
                   end_date, output_dir, df, today, ticks, dirs, files,
                   announced, processed, sleeps, symbol_sleeps, saved, csv>>
    /\ UNCHANGED fetchVars

\* after fetch_historical_data returned: sort and write the CSV when the
\* frame has rows
Save ==
    /\ pc = "return"
    /\ IF HasData(df)
       THEN /\ files' = {f \in files : f.path # OutputFile(output_dir, symbol)}
                         \cup {[path |-> OutputFile(output_dir, symbol),
                                dir |-> output_dir,
                                symbol |-> symbol]}
            /\ csv' = SortByDate(df.rows)
            /\ saved' = TRUE
       ELSE UNCHANGED <<files, saved, csv>>
    /\ pc' = "symbol_sleep"
    /\ UNCHANGED <<symbols, batch_size, i, batch, j, symbol, start_date,
                   end_date, output_dir, df, today, ticks, dirs, announced,
                   processed, sleeps, symbol_sleeps>>
    /\ UNCHANGED fetchVars

\* time.sleep(1) at the end of the inner loop body
SymbolSleep ==
    /\ pc = "symbol_sleep"
    /\ sleeps' = sleeps + 1
    /\ symbol_sleeps' = symbol_sleeps + 1
    /\ j' = j + 1
    /\ pc' = "symbol_loop"
    /\ UNCHANGED <<symbols, batch_size, i, batch, symbol, start_date,
                   end_date, output_dir, df, today, ticks, dirs, files,
                   announced, processed, saved, csv>>
    /\ UNCHANGED fetchVars

\* midnight (America/New_York) passes before the clock is read for the next
\* symbol (the clock is read nowhere else)
Tick ==
    /\ pc = "symbol_sleep"
    /\ ticks < MaxTicks
    /\ today' = today + 1
    /\ ticks' = ticks + 1
    /\ UNCHANGED <<symbols, batch_size, i, batch, j, symbol, start_date,
                   end_date, output_dir, df, pc, dirs, files, announced,
                   processed, sleeps, symbol_sleeps, saved, csv>>
    /\ UNCHANGED fetchVars

\* ---------------------------------------------------------- specifications
FetchNext == FetchLoop \/ ChunkReturn \/ ChunkSleep \/ FetchReturn

\* a direct call of fetch_historical_data on any range
FetchSpec == FetchInit /\ [][FetchNext]_vars

\* a direct call of fetch_historical_data on a range of at least two days
FetchRangeInit == FetchInit /\ start_date < end_date

FetchRangeSpec == FetchRangeInit /\ [][FetchNext]_vars

Step ==
    \/ BatchLoop \/ RunEnd \/ SymbolStart \/ BatchEnd
    \/ FetchLoop \/ ChunkReturn \/ ChunkSleep \/ FetchReturn
    \/ Save \/ SymbolSleep

Next == Step \/ Tick

\* a run of process_symbols_in_batches
Spec == Init /\ [][Next]_vars

\* the interpreter keeps executing the single thread
FairSpec == Init /\ [][Next]_vars /\ WF_vars(Step)

\* ------------------------------------------------------------ properties
RECURSIVE DataRows(_)
\* rows of the windows of a request log that returned data, in log order
DataRows(log) ==
    IF log = <<>> THEN <<>>
    ELSE (IF Head(log).kind = "data" THEN Head(log).rows ELSE <<>>)
         \o DataRows(Tail(log))

SomeData(log) == \E k \in 1..Len(log) : log[k].kind = "data"

\* smallest m with m * b >= n
CeilDiv(n, b) == CHOOSE m \in 0..n : m * b >= n /\ (m = 0 \/ (m - 1) * b < n)

InSymbol == pc \in {"while", "await", "chunk_sleep", "return", "symbol_sleep"}

\* C1: when fetch_historical_data(start, end) with start <= end has returned,
\* the requested windows cover exactly [start, end]: the first window starts
\* at start, the last ends at end, and every day of [start, end] lies in
\* some window.
C1_WindowsCoverRange ==
    (pc = "return" /\ start_date <= end_date) =>
        /\ reqlog # <<>>
        /\ reqlog[1].start = start_date
        /\ reqlog[Len(reqlog)].end = end_date
        /\ \A d \in start_date..end_date :
             \E k \in 1..Len(reqlog) : reqlog[k].start <= d /\ d <= reqlog[k].end

\* C2: for start < end every requested window has start <= end and span
\* <= 1000 days, and every window after the first begins exactly one day
\* after the end of the window before it.
C2_WindowsContiguous ==
    start_date < end_date =>
        \A k \in 1..Len(reqlog) :
            /\ reqlog[k].start <= reqlog[k].end
            /\ reqlog[k].end - reqlog[k].start <= 1000
            /\ k > 1 => reqlog[k].start = reqlog[k - 1].end + 1

C2_Witness ==
    /\ pc = "return"
    /\ Len(reqlog) = 3
    /\ reqlog[1].end - reqlog[1].start = 1000
    /\ reqlog[3].end = end_date

\* C3: whatever the outcomes of the windows, no exception escapes
\* fetch_historical_data, the loop goes on to the windows after a failed one
\* (it stops only when the day after the last window is not before end), and
\* the value returned is exactly the rows of the windows that returned data,
\* in window order (None when there are none).
C3_FailSoft ==
    /\ pc # "raised"
    /\ \A k \in 1..Len(reqlog) :
         (reqlog[k].kind \in {"error", "empty"} /\ reqlog[k].end + 1 < end_date
            /\ pc = "return") => k < Len(reqlog)
    /\ \A k \in 1..Len(all_data) : all_data[k].rows # <<>>
    /\ pc = "return" =>
         IF SomeData(reqlog)
         THEN df = DataFrame(DataRows(reqlog))
         ELSE df = None

C3_Witness ==
    /\ pc = "return"
    /\ Len(reqlog) = 3
    /\ reqlog[1].kind = "error"
    /\ reqlog[2].kind = "data"
    /\ reqlog[3].kind = "empty"
    /\ Len(df.rows) = 2

\* C4: once a symbol has been processed, a file was written for it if and
\* only if one of its windows returned data; without data the series is
\* absent (None) and, unless an earlier occurrence of the symbol wrote one,
\* no file of that symbol exists.
C4_FileIffData ==
    pc = "symbol_sleep" =>
        /\ saved <=> SomeData(reqlog)
        /\ ~SomeData(reqlog) => df = None
        /\ saved => /\ \E f \in files : f.path = OutputFile(output_dir, symbol)
                    /\ csv # <<>>
        /\ (~saved /\ \A k \in 1..(Len(processed) - 1) : processed[k] # symbol)
             => \A f \in files : f.symbol # symbol

C4_Witness ==
    /\ pc = "symbol_sleep"
    /\ Len(processed) = 2
    /\ ~saved
    /\ reqlog[1].kind = "error"
    /\ reqlog[2].kind = "empty"
    /\ files # {}

\* C5: the symbols processed so far are always the leading symbols of the
\* input list, in list order, and when the run is done they are the whole
\* list, whatever the outcomes.
C5_EverySymbolInOrder ==
    /\ Len(processed) <= Len(symbols)
    /\ processed = SubSeq(symbols, 1, Len(processed))
    /\ pc = "done" => processed = symbols

C5_Witness ==
    /\ pc = "done"
    /\ Len(symbols) = 3
    /\ batch_size = 2
    /\ Cardinality(files) = 1
    /\ \A f \in files : f.symbol = symbols[3] /\ f.symbol # symbols[1]

\* C6: once a symbol has been processed the run has created exactly one
\* output directory, and every output file of the run is in it.
C6_OneDirectory ==
    processed # <<>> =>
        /\ Cardinality(dirs) = 1
        /\ \A f \in files : f.dir \in dirs /\ f.dir = OutputDir(0, LookbackDays)

\* C7: a run in which every provider request returns reaches the end of
\* the symbol list.
C7_RunCompletes == <>(pc = "done")

C7_Witness ==
    /\ pc = "done"
    /\ Len(processed) = 3
    /\ processed = symbols

\* C8: the batches announced are numbered 1, 2, ... in order, each names
\* ceil(n / b) as the total, batch k is the slice of the list from (k-1)*b
\* to min(k*b, n), a finished run has announced ceil(n / b) of them, and 120
\* symbols with b = 50 give 3 batches of 50, 50 and 20.
C8_Batches ==
    LET n == Len(symbols)
        b == batch_size
        big == [k \in 1..120 |-> "TEST"]
    IN  /\ \A k \in 1..Len(announced) :
             /\ announced[k].number = k
             /\ announced[k].total = CeilDiv(n, b)
             /\ announced[k].batch = SubSeq(symbols, (k - 1) * b + 1, Min(k * b, n))
             /\ Len(announced[k].batch) = IF k * b <= n THEN b ELSE n - (k - 1) * b
        /\ Len(announced) <= CeilDiv(n, b)
        /\ pc = "done" => Len(announced) = CeilDiv(n, b)
        /\ TotalBatches(120, 50) = 3
        /\ <<BatchNumber(0, 50), BatchNumber(50, 50), BatchNumber(100, 50)>> = <<1, 2, 3>>
        /\ <<Len(BatchSlice(big, 0, 50)), Len(BatchSlice(big, 50, 50)),
             Len(BatchSlice(big, 100, 50))>> = <<50, 50, 20>>

C8_Witness ==
    /\ pc = "done"
    /\ Len(symbols) = 3
    /\ batch_size = 2
    /\ Len(announced) = 2
    /\ Len(announced[2].batch) = 1

\* C9: within one symbol at most one provider request is outstanding, a
\* request is outstanding only while the call waits for it, every earlier
\* request has its result, and the windows requested are strictly
\* chronological, so no window is requested twice.
C9_OneRequestAtATime ==
    /\ outstanding <= 1
    /\ outstanding = 1 <=> pc = "await"
    /\ \A k \in 1..Len(reqlog) :
         /\ (reqlog[k].kind = "pending") <=> (k = Len(reqlog) /\ pc = "await")
         /\ k > 1 => reqlog[k - 1].end < reqlog[k].start

C9_Witness ==
    /\ pc = "await"
    /\ Len(reqlog) = 3
    /\ reqlog[1].kind = "error"
    /\ reqlog[2].kind = "empty"

\* C10: every provider request but the first of the run was issued after at
\* least one pacing delay since the previous request returned, whatever that
\* request's outcome, and one further delay has followed every symbol
\* processed.
C10_Paced ==
    /\ \A k \in 1..Len(reqlog) : reqlog[k].paced
    /\ (pc = "await" /\ (Len(reqlog) > 1 \/ Len(processed) > 1)) => sleeps >= 1
    /\ pc = "chunk_sleep" => sleeps = 0
    /\ symbol_sleeps = IF InSymbol THEN Len(processed) - 1 ELSE Len(processed)

C10_Witness ==
    /\ pc = "await"
    /\ Len(processed) = 2
    /\ Len(reqlog) = 1
    /\ sleeps = 2

\* C11: every window handed to fetch_historical_data_chunk holds at most as
\* many calendar dates (both ends included) as one request may return rows
\* (limit = 1000).
C11_WindowFitsLimit ==
    \A k \in 1..Len(reqlog) :
        reqlog[k].end - reqlog[k].start + 1 <= RequestLimit

====
